---- MODULE Spec2Model ----
(***************************************************************************)
(* Real-time event synchronisation layer of the SystemCrafter UI:          *)
(*   - useProjectWebSocket (ui/src/lib/websocket.ts): one socket per       *)
(*     project/token key, exponential-backoff reconnect, heartbeat ping;   *)
(*   - handleWebSocketMessage (ui/src/app/dashboard/projects/page.tsx):    *)
(*     merge of server events into the task list and the log.              *)
(*                                                                         *)
(* Spec      : the connection hook (one hook instance, its refs, every     *)
(*             socket and timer it ever created).                          *)
(* ProjSpec  : the task/log projection of the project page.                *)
(* FrameSpec : one connection, the frames in flight and the page.          *)
(* FairSpec  : Spec with reconnect timers that fire when they can.         *)
(***************************************************************************)
EXTENDS Integers, Sequences, FiniteSets, TLC

\* ------------------------------------------------------------------------
\* Bounds of the model
\* ------------------------------------------------------------------------
MaxSockets == 7        \* sockets one hook instance creates in a run
MaxTimers == 6         \* reconnect timers it schedules in a run
MaxEffectRuns == 2     \* runs of the effect (mount, then re-subscriptions)
MaxUnanswered == 2     \* heartbeat probes in flight without a reply
MaxEvents == 4         \* messages handled by the page in a run
MaxWire == 2           \* frames in flight towards one socket
MaxBadFrames == 1      \* malformed frames the server sends in a run

\* ------------------------------------------------------------------------
\* Program constants
\* ------------------------------------------------------------------------
maxReconnectAttempts == 5
NormalClosure == 1000          \* the code the onclose handler compares with
BaseDelay == 1000
DelayCap == 30000

NoKey == "none"                \* projectId or token missing (falsy)
Keys == {"k1", "k2"}           \* (projectId, token) pairs that are both set
AllKeys == Keys \cup {NoKey}
\* keys of the first render: the first key that is set is named "k1"
FirstKeys == {"k1", NoKey}

\* close codes a CloseEvent can carry: normal, going away, "no status"
\* (close() without a code, echoed by the peer), abnormal (no close frame)
CloseCodes == {1000, 1001, 1005, 1006}

VARIABLES
    phase,                 \* "init" | "mounted" | "unmounted"
    curKey,                \* key of the effect that is in force
    effectRuns,            \* number of times the effect has run
    sockets,               \* every WebSocket created, in creation order
    wsRef,                 \* wsRef.current: 0 (null) or an index of sockets
    timeouts,              \* every setTimeout made by onclose, in order
    reconnectTimeoutRef,   \* reconnectTimeoutRef.current: 0 or an index
    reconnectAttempts,     \* reconnectAttempts.current
    everOpened,            \* some socket's onopen has run
    tasks,                 \* page state: the task list
    logs,                  \* page state: the log
    isGenerating,          \* page state
    refetches,             \* calls of refetchArtifacts()
    applied,               \* messages handled so far (calls of onMessage)
    parseErrors            \* frames dropped by the catch of ws.onmessage

connVars == <<phase, curKey, effectRuns, sockets, wsRef, timeouts,
              reconnectTimeoutRef, reconnectAttempts, everOpened>>
projVars == <<tasks, logs, isGenerating, refetches, applied, parseErrors>>
vars == <<phase, curKey, effectRuns, sockets, wsRef, timeouts,
          reconnectTimeoutRef, reconnectAttempts, everOpened,
          tasks, logs, isGenerating, refetches, applied, parseErrors>>

Min(a, b) == IF a < b THEN a ELSE b
Max(a, b) == IF a > b THEN a ELSE b

RECURSIVE Pow2(_)
Pow2(n) == IF n <= 0 THEN 1 ELSE 2 * Pow2(n - 1)

\* ------------------------------------------------------------------------
\* The connection hook
\* ------------------------------------------------------------------------

\* readyState is OPEN or CONNECTING (the test of connect's guard)
IsLive(s) == s.readyState \in {"CONNECTING", "OPEN"}

\* new WebSocket(wsUrl) with its heartbeat interval started; inbox holds the
\* frames the transport has received for it and not yet delivered
NewSocket(k, ff) ==
    [key |-> k, readyState |-> "CONNECTING", established |-> FALSE,
     heartbeat |-> TRUE, unanswered |-> 0, fromFailed |-> ff,
     inbox |-> <<>>]

\* variants of the guard: the OPEN test alone; no readyState test at all
ConnectSkipsOnlyOpen(k, socks, ref) ==
    \/ k = NoKey
    \/ ref # 0 /\ socks[ref].readyState = "OPEN"

ConnectSkipsKeyOnly(k, socks, ref) == k = NoKey

\* connect() returns early: key missing, or a socket is open or connecting
ConnectSkips(k, socks, ref) ==
    \/ k = NoKey
    \/ ref # 0 /\ IsLive(socks[ref])

\* the socket list after connect() of the closure for key k
ConnectSockets(k, socks, ref, ff) ==
    IF ConnectSkips(k, socks, ref) THEN socks
    ELSE Append(socks, NewSocket(k, ff))

\* wsRef.current after connect()
ConnectRef(k, socks, ref) ==
    IF ConnectSkips(k, socks, ref) THEN ref ELSE Len(socks) + 1

\* ws.close(): an open or connecting socket starts closing, else no effect
CloseSocket(s) ==
    IF IsLive(s) THEN [s EXCEPT !.readyState = "CLOSING"] ELSE s

\* effect cleanup, part 2: wsRef.current.close()
CleanupSockets(socks, ref) ==
    IF ref = 0 THEN socks ELSE [socks EXCEPT ![ref] = CloseSocket(socks[ref])]

\* a timer that fired or was cleared: the timer table keeps nothing of it
\* but the id, which reconnectTimeoutRef may still hold
DoneTimer(how) == [state |-> how]

\* effect cleanup, part 1: clearTimeout(reconnectTimeoutRef.current)
CleanupTimeouts(tos, tref) ==
    IF tref # 0 /\ tos[tref].state = "pending"
    THEN [tos EXCEPT ![tref] = DoneTimer("cleared")]
    ELSE tos

\* the reconnect budget is used up and nothing is pending or connected
IsFailed ==
    /\ reconnectAttempts >= maxReconnectAttempts
    /\ \A t \in 1..Len(timeouts) : timeouts[t].state # "pending"
    /\ \A s \in 1..Len(sockets) : sockets[s].readyState = "CLOSED"

\* variant: the close code is not looked at
ShouldReconnectAnyCode(code, attempts) == attempts < maxReconnectAttempts

\* the test of onclose: reconnect for a non-normal closure below the ceiling
ShouldReconnect(code, attempts) ==
    code # NormalClosure /\ attempts < maxReconnectAttempts

\* variant: exponent off by one
ReconnectDelayOffByOne(attempts) ==
    Min(BaseDelay * Pow2(attempts + 1), DelayCap)

\* delay computed by onclose
ReconnectDelay(attempts) == Min(BaseDelay * Pow2(attempts), DelayCap)

\* first run of the effect: connect()
Mount(k) ==
    /\ phase = "init"
    /\ phase' = "mounted"
    /\ curKey' = k
    /\ effectRuns' = effectRuns + 1
    /\ sockets' = ConnectSockets(k, sockets, wsRef, FALSE)
    /\ wsRef' = ConnectRef(k, sockets, wsRef)
    /\ UNCHANGED <<timeouts, reconnectTimeoutRef, reconnectAttempts>>
    /\ UNCHANGED <<everOpened, tasks, logs, isGenerating, refetches, applied,
                   parseErrors>>

\* the effect's dependencies change (or it is re-run for the same key):
\* cleanup of the old effect, then connect() of the new closure
Resubscribe(k) ==
    /\ phase = "mounted"
    /\ effectRuns < MaxEffectRuns
    /\ LET socks1 == CleanupSockets(sockets, wsRef)
       IN  /\ ConnectSkips(k, socks1, wsRef) \/ Len(sockets) < MaxSockets
           /\ sockets' = ConnectSockets(k, socks1, wsRef, IsFailed)
           /\ wsRef' = ConnectRef(k, socks1, wsRef)
    /\ timeouts' = CleanupTimeouts(timeouts, reconnectTimeoutRef)
    /\ curKey' = k
    /\ effectRuns' = effectRuns + 1
    /\ UNCHANGED <<phase, reconnectTimeoutRef, reconnectAttempts>>
    /\ UNCHANGED <<everOpened, tasks, logs, isGenerating, refetches, applied,
                   parseErrors>>

\* the component unmounts: cleanup only
Unmount ==
    /\ phase = "mounted"
    /\ phase' = "unmounted"
    /\ sockets' = CleanupSockets(sockets, wsRef)
    /\ timeouts' = CleanupTimeouts(timeouts, reconnectTimeoutRef)
    /\ UNCHANGED <<curKey, effectRuns, wsRef, reconnectTimeoutRef,
                   reconnectAttempts>>
    /\ UNCHANGED <<everOpened, tasks, logs, isGenerating, refetches, applied,
                   parseErrors>>

\* ws.onopen: the handshake succeeded
OnOpen(s) ==
    /\ sockets[s].readyState = "CONNECTING"
    /\ sockets' = [sockets EXCEPT ![s].readyState = "OPEN",
                                  ![s].established = TRUE]
    /\ reconnectAttempts' = 0
    /\ everOpened' = TRUE
    /\ UNCHANGED <<phase, curKey, effectRuns, wsRef, timeouts,
                   reconnectTimeoutRef>>
    /\ UNCHANGED projVars

\* variant: the 'close' listener does not clear the heartbeat interval
ClosedSocketKeepsHeartbeat == [readyState |-> "CLOSED", heartbeat |-> TRUE]

\* a socket after its close event: it delivers no more events, its heartbeat
\* interval is cleared, and the hook reads nothing of it but readyState
ClosedSocket == [readyState |-> "CLOSED", heartbeat |-> FALSE]

\* codes the close event of socket s can carry: a socket whose handshake
\* never completed received no close frame
CodesFor(s) ==
    IF sockets[s].established THEN CloseCodes ELSE {1006}

\* the close event of socket s: ws.onclose, then the 'close' listener that
\* clears the heartbeat interval
OnClose(s, c) ==
    /\ sockets[s].readyState # "CLOSED"
    /\ c \in CodesFor(s)
    /\ sockets' = [sockets EXCEPT ![s] = ClosedSocket]
    /\ IF ShouldReconnect(c, reconnectAttempts)
       THEN /\ Len(timeouts) < MaxTimers
            /\ timeouts' = Append(timeouts,
                   [key |-> sockets[s].key,
                    delay |-> ReconnectDelay(reconnectAttempts),
                    state |-> "pending"])
            /\ reconnectTimeoutRef' = Len(timeouts) + 1
       ELSE UNCHANGED <<timeouts, reconnectTimeoutRef>>
    /\ UNCHANGED <<phase, curKey, effectRuns, wsRef, reconnectAttempts>>
    /\ UNCHANGED <<everOpened, tasks, logs, isGenerating, refetches, applied,
                   parseErrors>>

\* setTimeout fires timers in deadline order: a timer scheduled earlier with
\* a delay that is not longer fires first
CanFire(t) ==
    /\ timeouts[t].state = "pending"
    /\ \A u \in 1..(t - 1) :
          timeouts[u].state = "pending" => timeouts[u].delay > timeouts[t].delay

\* the reconnect timer's callback: reconnectAttempts.current++; connect()
FireReconnect(t) ==
    /\ CanFire(t)
    /\ ConnectSkips(timeouts[t].key, sockets, wsRef) \/ Len(sockets) < MaxSockets
    /\ timeouts' = [timeouts EXCEPT ![t] = DoneTimer("fired")]
    /\ reconnectAttempts' = reconnectAttempts + 1
    /\ sockets' = ConnectSockets(timeouts[t].key, sockets, wsRef, FALSE)
    /\ wsRef' = ConnectRef(timeouts[t].key, sockets, wsRef)
    /\ UNCHANGED <<phase, curKey, effectRuns, reconnectTimeoutRef>>
    /\ UNCHANGED <<everOpened, tasks, logs, isGenerating, refetches, applied,
                   parseErrors>>

\* the heartbeat interval of socket s ticks: ping if the socket is open
Heartbeat(s) ==
    /\ sockets[s].heartbeat
    /\ sockets[s].readyState = "OPEN" => sockets[s].unanswered < MaxUnanswered
    /\ sockets' = IF sockets[s].readyState = "OPEN"
                  THEN [sockets EXCEPT ![s].unanswered = @ + 1]
                  ELSE sockets
    /\ UNCHANGED <<phase, curKey, effectRuns, wsRef, timeouts,
                   reconnectTimeoutRef, reconnectAttempts>>
    /\ UNCHANGED <<everOpened, tasks, logs, isGenerating, refetches, applied,
                   parseErrors>>

\* ws.onmessage with the frame 'pong': the reply to the probes, swallowed
OnPong(s) ==
    /\ sockets[s].readyState = "OPEN"
    /\ sockets[s].unanswered > 0
    /\ sockets' = [sockets EXCEPT ![s].unanswered = 0]
    /\ UNCHANGED <<phase, curKey, effectRuns, wsRef, timeouts,
                   reconnectTimeoutRef, reconnectAttempts>>
    /\ UNCHANGED <<everOpened, tasks, logs, isGenerating, refetches, applied,
                   parseErrors>>

\* ------------------------------------------------------------------------
\* The project page: task list, log, isGenerating
\* ------------------------------------------------------------------------
Undefined == "<undefined>"     \* an absent optional field of a message
Null == "<null>"               \* error_message: null
NoNumber == -999               \* message.progress absent

TaskIds == {"t1", "t2"}
UnknownTask == "t9"            \* a task id that no fetched task carries
ProgressValues == {-5, 0, 30, 40, 100, 150}
ErrorTexts == {"", "boom"}
LogEntries == {"l1", "l2"}

\* rows the tasks endpoint returns for one task
SnapshotRows ==
    { [status |-> "pending", progress |-> 0, error_message |-> Null],
      [status |-> "running", progress |-> 40, error_message |-> Null],
      [status |-> "completed", progress |-> 100, error_message |-> Null],
      [status |-> "failed", progress |-> 40, error_message |-> "boom"] }

MkTask(id, row) ==
    [id |-> id, status |-> row.status, progress |-> row.progress,
     error_message |-> row.error_message]

\* results of apiClient.getProjectTasks: the project's tasks, in server order
Snapshots ==
    { <<MkTask("t1", r)>> : r \in SnapshotRows } \cup
    { <<MkTask("t1", r1), MkTask("t2", r2)>> :
          r1 \in SnapshotRows, r2 \in SnapshotRows }

Msg(type, tid, progress, error, log) ==
    [type |-> type, task_id |-> tid, progress |-> progress,
     error |-> error, log |-> log]

MsgTaskIds == TaskIds \cup {UnknownTask, Undefined}

\* parsed WebSocketMessage values delivered to onMessage
Messages ==
    { Msg("task_started", t, NoNumber, Undefined, Undefined) :
          t \in MsgTaskIds } \cup
    { Msg("task_progress", t, p, Undefined, Undefined) :
          t \in MsgTaskIds, p \in ProgressValues \cup {NoNumber} } \cup
    { Msg("task_completed", t, NoNumber, Undefined, Undefined) :
          t \in MsgTaskIds } \cup
    { Msg("task_failed", t, NoNumber, e, Undefined) :
          t \in MsgTaskIds, e \in ErrorTexts \cup {Undefined} } \cup
    { Msg("log", Undefined, NoNumber, Undefined, l) :
          l \in LogEntries \cup {Undefined} } \cup
    { Msg(ty, Undefined, NoNumber, Undefined, Undefined) :
          ty \in {"artifact_created", "project_status", "error"} }

\* JavaScript truthiness of message.progress and message.error
TruthyNumber(n) == n # NoNumber /\ n # 0
TruthyString(x) == x # Undefined /\ x # ""

\* message.progress || t.progress
MergedProgress(m, t) ==
    IF TruthyNumber(m.progress) THEN m.progress ELSE t.progress

\* message.error || null
MergedError(m) == IF TruthyString(m.error) THEN m.error ELSE Null

\* variant: task_started sets the status and keeps the stored progress
UpdateTaskStartKeepsProgress(m, t) ==
    IF t.id # m.task_id THEN t
    ELSE CASE m.type = "task_started" ->
                [t EXCEPT !.status = "running"]
           [] m.type = "task_progress" ->
                [t EXCEPT !.progress = MergedProgress(m, t)]
           [] m.type = "task_completed" ->
                [t EXCEPT !.status = "completed", !.progress = 100]
           [] m.type = "task_failed" ->
                [t EXCEPT !.status = "failed",
                          !.error_message = MergedError(m)]
           [] OTHER -> t

\* variant: task_completed sets the status and keeps the stored progress
UpdateTaskKeepsProgress(m, t) ==
    IF t.id # m.task_id THEN t
    ELSE CASE m.type = "task_started" ->
                [t EXCEPT !.status = "running", !.progress = 0]
           [] m.type = "task_progress" ->
                [t EXCEPT !.progress = MergedProgress(m, t)]
           [] m.type = "task_completed" ->
                [t EXCEPT !.status = "completed"]
           [] m.type = "task_failed" ->
                [t EXCEPT !.status = "failed",
                          !.error_message = MergedError(m)]
           [] OTHER -> t

\* the callback of prev.map(...) for each message type
UpdateTask(m, t) ==
    IF t.id # m.task_id THEN t
    ELSE CASE m.type = "task_started" ->
                [t EXCEPT !.status = "running", !.progress = 0]
           [] m.type = "task_progress" ->
                [t EXCEPT !.progress = MergedProgress(m, t)]
           [] m.type = "task_completed" ->
                [t EXCEPT !.status = "completed", !.progress = 100]
           [] m.type = "task_failed" ->
                [t EXCEPT !.status = "failed",
                          !.error_message = MergedError(m)]
           [] OTHER -> t

\* variant: a message of a type without a case resets the list
MapTasksOtherResets(m, ts) ==
    IF m.type \in {"artifact_created", "project_status", "error"}
    THEN <<>>
    ELSE [i \in 1..Len(ts) |-> UpdateTask(m, ts[i])]

\* variant: a task event whose id matches no task inserts a task
MapTasksUpsert(m, ts) ==
    IF /\ m.task_id # Undefined
       /\ \A i \in 1..Len(ts) : ts[i].id # m.task_id
    THEN Append(ts, UpdateTask(m, [id |-> m.task_id, status |-> "pending",
                                  progress |-> 0, error_message |-> Null]))
    ELSE [i \in 1..Len(ts) |-> UpdateTask(m, ts[i])]

\* setTasks((prev) => prev.map(...))
MapTasks(m, ts) == [i \in 1..Len(ts) |-> UpdateTask(m, ts[i])]

\* variant: a task whose local progress is ahead of the snapshot is kept
FetchedTasksKeepsLocal(snap) ==
    /\ tasks' = [i \in 1..Len(snap) |->
                    IF /\ i <= Len(tasks)
                       /\ tasks[i].id = snap[i].id
                       /\ tasks[i].progress > snap[i].progress
                    THEN tasks[i] ELSE snap[i]]
    /\ isGenerating' = (\E i \in 1..Len(snap) : snap[i].status = "running")
    /\ UNCHANGED <<logs, refetches, applied, parseErrors>>
    /\ UNCHANGED connVars

\* useEffect on fetchedTasks: the snapshot replaces the task list
FetchedTasks(snap) ==
    /\ tasks' = snap
    /\ isGenerating' = (\E i \in 1..Len(snap) : snap[i].status = "running")
    /\ UNCHANGED <<logs, refetches, applied, parseErrors>>
    /\ UNCHANGED connVars

\* variants of the log update: newest first; only the newest kept
MergedLogsNewestFirst(m, ls) ==
    IF m.type = "log" /\ m.log # Undefined THEN <<m.log>> \o ls ELSE ls

MergedLogsOnlyNewest(m, ls) ==
    IF m.type = "log" /\ m.log # Undefined THEN <<m.log>> ELSE ls

\* case 'log': setLogs((prev) => [...prev, message.log!])
MergedLogs(m, ls) ==
    IF m.type = "log" /\ m.log # Undefined THEN Append(ls, m.log) ELSE ls

\* the state updates of handleWebSocketMessage(m)
ApplyMessage(m) ==
    /\ applied' = applied + 1
    /\ tasks' = MapTasks(m, tasks)
    /\ isGenerating' = CASE m.type = "task_started" -> TRUE
                         [] m.type = "task_failed" -> FALSE
                         [] OTHER -> isGenerating
    /\ refetches' = IF m.type = "task_completed" THEN refetches + 1
                    ELSE refetches
    /\ logs' = MergedLogs(m, logs)

\* handleWebSocketMessage(m)
HandleMessage(m) ==
    /\ applied < MaxEvents
    /\ ApplyMessage(m)
    /\ UNCHANGED parseErrors
    /\ UNCHANGED connVars

\* startMutation.onSuccess
StartGeneration ==
    /\ isGenerating' = TRUE
    /\ logs' = <<>>
    /\ UNCHANGED <<tasks, refetches, applied, parseErrors>>
    /\ UNCHANGED connVars

\* ------------------------------------------------------------------------
\* Frames: from the transport through ws.onmessage to the page
\* ------------------------------------------------------------------------
NoMessage == Msg("none", Undefined, NoNumber, Undefined, Undefined)

\* event.data of a frame: the literal 'pong', text that JSON.parse rejects,
\* or the JSON text of a message
PongFrame == [data |-> "pong", msg |-> NoMessage]
BadFrame == [data |-> "malformed", msg |-> NoMessage]
JsonFrame(m) == [data |-> "json", msg |-> m]

\* messages the server pushes in the frame model
WireMessages ==
    { Msg("task_started", "t1", NoNumber, Undefined, Undefined),
      Msg("task_progress", "t1", 40, Undefined, Undefined),
      Msg("task_progress", "t1", 30, Undefined, Undefined),
      Msg("task_completed", "t1", NoNumber, Undefined, Undefined),
      Msg("log", Undefined, NoNumber, Undefined, "l1"),
      Msg("log", Undefined, NoNumber, Undefined, "l2"),
      Msg("artifact_created", Undefined, NoNumber, Undefined, Undefined) }

\* task snapshots fetched in the frame model: the one task the frames name
WireSnapshots == { <<MkTask("t1", r)>> : r \in SnapshotRows }

WireFrames == {PongFrame, BadFrame} \cup {JsonFrame(m) : m \in WireMessages}

\* event.data === 'pong'
IsPong(f) == f.data = "pong"

\* variant: no frame is rejected
ParsesAnything(f) == TRUE

\* JSON.parse(event.data) returns (does not throw)
Parses(f) == f.data = "json"

\* variant: every frame reaches onMessage
ForwardedAlways(f) == TRUE

\* the frame reaches onMessage(data)
Forwarded(f) == ~IsPong(f) /\ Parses(f)

\* variant: the newest frame overtakes the queued ones
NextFrameNewest(inbox) == inbox[Len(inbox)]

\* the frame of the next message event: the transport delivers in order
NextFrame(inbox) == Head(inbox)

CountFrames(inbox, d) ==
    Cardinality({i \in 1..Len(inbox) : inbox[i].data = d})

\* the server sends a frame on an open connection
ServerSends(s, f) ==
    /\ sockets[s].readyState = "OPEN"
    /\ Len(sockets[s].inbox) < MaxWire
    /\ Parses(f) => applied + CountFrames(sockets[s].inbox, "json") < MaxEvents
    /\ f = BadFrame =>
          parseErrors + CountFrames(sockets[s].inbox, "malformed") < MaxBadFrames
    /\ sockets' = [sockets EXCEPT ![s].inbox = Append(@, f)]
    /\ UNCHANGED <<phase, curKey, effectRuns, wsRef, timeouts,
                   reconnectTimeoutRef, reconnectAttempts, everOpened>>
    /\ UNCHANGED projVars

\* ws.onmessage for the next frame of socket s: 'pong' is skipped, a frame
\* that parses goes to onMessage (handleWebSocketMessage), a parse failure
\* is caught and logged
OnMessage(s) ==
    /\ sockets[s].readyState = "OPEN"
    /\ sockets[s].inbox # <<>>
    /\ LET f == NextFrame(sockets[s].inbox)
       IN  /\ sockets' = [sockets EXCEPT
                  ![s].inbox = Tail(@),
                  ![s].unanswered = IF IsPong(f) THEN 0 ELSE @]
           /\ IF Forwarded(f)
              THEN ApplyMessage(f.msg) /\ UNCHANGED parseErrors
              ELSE /\ parseErrors' = IF IsPong(f) THEN parseErrors
                                     ELSE parseErrors + 1
                   /\ UNCHANGED <<tasks, logs, isGenerating, refetches,
                                  applied>>
    /\ UNCHANGED <<phase, curKey, effectRuns, wsRef, timeouts,
                   reconnectTimeoutRef, reconnectAttempts, everOpened>>

ConnInit ==
    /\ phase = "init"
    /\ curKey = NoKey
    /\ effectRuns = 0
    /\ sockets = <<>>
    /\ wsRef = 0
    /\ timeouts = <<>>
    /\ reconnectTimeoutRef = 0
    /\ reconnectAttempts = 0
    /\ everOpened = FALSE

ProjInit ==
    /\ tasks = <<>>
    /\ logs = <<>>
    /\ isGenerating = FALSE
    /\ refetches = 0
    /\ applied = 0
    /\ parseErrors = 0

Init == ConnInit /\ ProjInit

Next ==
    \/ \E k \in FirstKeys : Mount(k)
    \/ \E k \in AllKeys : Resubscribe(k)
    \/ Unmount
    \/ \E s \in 1..Len(sockets) : OnOpen(s)
    \/ \E s \in 1..Len(sockets) : \E c \in CloseCodes : OnClose(s, c)
    \/ \E t \in 1..Len(timeouts) : FireReconnect(t)
    \/ \E s \in 1..Len(sockets) : Heartbeat(s)
    \/ \E s \in 1..Len(sockets) : OnPong(s)

Spec == Init /\ [][Next]_vars

\* the hook under the assumption that a pending timer that may fire does
FairSpec ==
    /\ Init
    /\ [][Next]_vars
    /\ \A t \in 1..MaxTimers :
          WF_vars(t <= Len(timeouts) /\ FireReconnect(t))

ProjNext ==
    \/ \E snap \in Snapshots : FetchedTasks(snap)
    \/ \E m \in Messages : HandleMessage(m)
    \/ StartGeneration

ProjSpec == Init /\ [][ProjNext]_vars

\* one connection of the hook with the page behind it
FrameNext ==
    \/ \E k \in FirstKeys : Mount(k)
    \/ \E s \in 1..Len(sockets) : OnOpen(s)
    \/ \E s \in 1..Len(sockets) : \E f \in WireFrames : ServerSends(s, f)
    \/ \E s \in 1..Len(sockets) : OnMessage(s)
    \/ \E s \in 1..Len(sockets) : \E c \in CloseCodes : OnClose(s, c)
    \/ \E snap \in WireSnapshots : FetchedTasks(snap)

FrameSpec == Init /\ [][FrameNext]_vars

\* ------------------------------------------------------------------------
\* Properties of the connection hook (checked under Spec)
\* ------------------------------------------------------------------------
SocketIds == 1..Len(sockets)
TimerIds == 1..Len(timeouts)
LiveSockets == {s \in SocketIds : IsLive(sockets[s])}

\* a reconnect timer's callback runs in this step
TimerFires(t) == timeouts[t].state = "pending" /\ timeouts'[t].state = "fired"
\* the close event of socket s is delivered in this step
SocketCloses(s) ==
    sockets[s].readyState # "CLOSED" /\ sockets'[s].readyState = "CLOSED"
\* onclose called setTimeout in this step
TimerScheduled ==
    /\ Len(timeouts') = Len(timeouts) + 1
    /\ timeouts'[Len(timeouts')].state = "pending"

\* C1: after the cleanup of the effect on unmount, no reconnect timer runs
\* connect(), no socket is created and the attempt counter does not change,
\* whatever events follow (the late close event of the closed socket
\* included).
C1_NoReconnectAfterCleanup ==
    [][phase = "unmounted" =>
          /\ \A t \in TimerIds : ~TimerFires(t)
          /\ Len(sockets') = Len(sockets)
          /\ reconnectAttempts' = reconnectAttempts]_vars

\* C2: once the subscription has been re-established with a new key, a
\* close callback or a reconnect timer of a socket of another (old) key does
\* not change reconnectAttempts, reconnectTimeoutRef or wsRef and opens no
\* socket.
C2_StaleCallbacksAreInert ==
    [][(/\ phase = "mounted"
        /\ effectRuns >= 2
        /\ curKey \in Keys
        /\ \/ \E s \in SocketIds : SocketCloses(s) /\ sockets[s].key # curKey
           \/ \E t \in TimerIds : TimerFires(t) /\ timeouts[t].key # curKey)
       => /\ reconnectAttempts' = reconnectAttempts
          /\ reconnectTimeoutRef' = reconnectTimeoutRef
          /\ wsRef' = wsRef
          /\ Len(sockets') = Len(sockets)]_vars

\* the delays of the claim, in ms, for reconnect attempts 1..5
BackoffSchedule == <<1000, 2000, 4000, 8000, 16000>>

C4_ReconnectIffAbnormalBelowCeiling ==
    [][\A s \in SocketIds :
          SocketCloses(s) =>
              \A c \in CloseCodes :
                  OnClose(s, c) =>
                      (TimerScheduled <=>
                           (c # 1000 /\ reconnectAttempts < 5))]_vars

\* a close event has scheduled a reconnect that is still pending, and an
\* earlier close event (of an established socket) scheduled none
C4_Witness ==
    /\ \E t \in TimerIds : timeouts[t].state = "pending"
    /\ reconnectAttempts < 5
    /\ \E s \in SocketIds : sockets[s].readyState = "CLOSED"
    /\ Len(timeouts) < Cardinality({s \in SocketIds :
                                       sockets[s].readyState = "CLOSED"})

\* C5: an Open connection does not outlive a heartbeat interval in which
\* its probe stayed unanswered: when the next probe is due and the previous
\* one has no reply, the socket is no longer OPEN (so no open socket ever
\* has two probes without a reply).
C5_UnansweredProbeLeavesOpen ==
    \A s \in SocketIds :
        sockets[s].readyState = "OPEN" => sockets[s].unanswered <= 1

\* C6: connect() called while wsRef.current is CONNECTING or OPEN (from a
\* reconnect timer, the only caller that can find it so) creates no socket
\* and leaves wsRef, reconnectTimeoutRef and the other timers unchanged; the
\* counter moves only by the callback's own increment; one live connection
\* remains.
C6_ConnectWhileLiveIsNoOp ==
    [][\A t \in TimerIds :
          (TimerFires(t) /\ wsRef # 0 /\ IsLive(sockets[wsRef])) =>
              /\ sockets' = sockets
              /\ wsRef' = wsRef
              /\ reconnectTimeoutRef' = reconnectTimeoutRef
              /\ reconnectAttempts' = reconnectAttempts + 1
              /\ Len(timeouts') = Len(timeouts)
              /\ \A u \in TimerIds \ {t} : timeouts'[u] = timeouts[u]
              /\ Cardinality(LiveSockets') = 1]_vars

\* a timer has fired since the current socket opened: its connect() found
\* the socket OPEN and returned (onopen had reset the counter to 0)
C6_Witness ==
    /\ wsRef # 0
    /\ sockets[wsRef].readyState = "OPEN"
    /\ reconnectAttempts > 0

\* C7: at most one socket of the hook instance is CONNECTING or OPEN.
C7_AtMostOneLiveSocket == Cardinality(LiveSockets) <= 1

\* a live socket while the reconnect timer of an older socket is pending
\* (its callback will call connect() next to the live socket)
C7_Witness ==
    /\ Cardinality(LiveSockets) = 1
    /\ \E t \in TimerIds : timeouts[t].state = "pending"
    /\ Len(sockets) >= 2

\* C8: a socket opened by the consumer once the budget was used up (Failed)
\* has a fresh budget: when it fails, a reconnect is scheduled with the
\* delay of attempt 1.
C8_OpenAfterFailedResetsBudget ==
    [][\A s \in SocketIds : \A c \in CloseCodes \ {1000} :
          (OnClose(s, c) /\ sockets[s].fromFailed) =>
              /\ TimerScheduled
              /\ timeouts'[Len(timeouts')].delay = 1000]_vars

\* C9: when a connection that reached Open closes with a non-normal code,
\* the reconnect scheduled is attempt 1, with a delay of 1000 ms.
C9_ReconnectAfterOpenIsAttemptOne ==
    [][\A s \in SocketIds : \A c \in CloseCodes \ {1000} :
          (OnClose(s, c) /\ sockets[s].established) =>
              /\ TimerScheduled
              /\ timeouts'[Len(timeouts')].delay = 1000]_vars

\* ------------------------------------------------------------------------
\* Properties of the projection (checked under ProjSpec)
\* ------------------------------------------------------------------------
Clamp(x) == Min(100, Max(0, x))

\* C10: a TaskProgress event for an existing task stores the maximum of the
\* stored and the incoming progress, clamped to [0,100]: a lower value never
\* lowers the stored progress and a value above 100 is stored as 100.
C10_ProgressIsMaxSeenClamped ==
    [][\A m \in Messages :
          (m.type = "task_progress" /\ m.progress # NoNumber
             /\ HandleMessage(m)) =>
              \A i \in 1..Len(tasks) :
                  tasks[i].id = m.task_id =>
                      tasks'[i].progress =
                          Clamp(Max(tasks[i].progress, m.progress))]_vars

TaskIdx == 1..Len(tasks)
TaskEventTypes ==
    {"task_started", "task_progress", "task_completed", "task_failed"}
HasEntry(tid) == \E i \in TaskIdx : tasks[i].id = tid

\* C11: TaskCompleted for a task that has an entry leaves it completed with
\* progress 100, whatever it held before, and leaves the other tasks as
\* they were.
C11_CompletedSetsProgress100 ==
    [][refetches' = refetches + 1 =>
          \A m \in Messages :
              (m.type = "task_completed" /\ HandleMessage(m)) =>
                  /\ Len(tasks') = Len(tasks)
                  /\ \A i \in TaskIdx :
                        IF tasks[i].id = m.task_id
                        THEN /\ tasks'[i].status = "completed"
                             /\ tasks'[i].progress = 100
                        ELSE tasks'[i] = tasks[i]]_vars

\* a task that had failed at progress 40 is now completed with progress 100
C11_Witness ==
    /\ refetches > 0
    /\ \E i \in TaskIdx :
          /\ tasks[i].status = "completed"
          /\ tasks[i].progress = 100
          /\ tasks[i].error_message = "boom"

\* C12: TaskFailed for a task that has an entry keeps its progress, sets its
\* status to failed and sets error_message to the error text of the event.
C12_FailedSetsErrorText ==
    [][\A m \in Messages :
          (m.type = "task_failed" /\ m.error # Undefined
             /\ HandleMessage(m)) =>
              \A i \in TaskIdx :
                  tasks[i].id = m.task_id =>
                      /\ tasks'[i].progress = tasks[i].progress
                      /\ tasks'[i].status = "failed"
                      /\ tasks'[i].error_message = m.error]_vars

\* the status a task event implies
ImpliedStatus(type) ==
    CASE type = "task_completed" -> "completed"
      [] type = "task_failed" -> "failed"
      [] OTHER -> "running"

\* C13: a task event whose task id has no entry creates one, with the
\* status the event implies.
C13_FirstSightCreatesEntry ==
    [][\A m \in Messages :
          (/\ m.type \in TaskEventTypes
           /\ m.task_id # Undefined
           /\ ~HasEntry(m.task_id)
           /\ HandleMessage(m)) =>
              \E i \in 1..Len(tasks') :
                  /\ tasks'[i].id = m.task_id
                  /\ tasks'[i].status = ImpliedStatus(m.type)]_vars

\* C14: every completed task has progress 100.
C14_CompletedHasProgress100 ==
    \A i \in TaskIdx : tasks[i].status = "completed" => tasks[i].progress = 100

\* C15: every failed task has its error_message set (not null).
C15_FailedHasErrorText ==
    \A i \in TaskIdx : tasks[i].status = "failed" => tasks[i].error_message # Null

LogMessages == {m \in Messages : m.type = "log"}

\* C16: a log event leaves the task list unchanged and puts its entry at
\* the end of the log; a task event leaves the log unchanged.
C16_LogsAndTasksIndependent ==
    [][applied' = applied + 1 =>
          /\ \A m \in LogMessages :
                HandleMessage(m) =>
                    /\ tasks' = tasks
                    /\ logs' = IF m.log # Undefined
                               THEN logs \o <<m.log>> ELSE logs
          /\ logs' # logs =>
                \A m \in Messages :
                    m.type \in TaskEventTypes => ~HandleMessage(m)]_vars

\* two log entries in their arrival order, after a task event was merged
C16_Witness ==
    /\ logs = <<"l2", "l1">>
    /\ refetches > 0
    /\ \E i \in TaskIdx : tasks[i].status = "completed"

IsPrefix(a, b) == Len(a) <= Len(b) /\ \A i \in 1..Len(a) : a[i] = b[i]

\* C17 as stated: in every step the previous log is a prefix of the new one.
C17_LogAppendOnly == [][IsPrefix(logs, logs')]_vars

\* C17 as amended: the previous log is a prefix of the new one in every
\* step but the start of a generation, which empties it.
C17_LogAppendOnlyButStart ==
    [][IsPrefix(logs, logs') \/ (StartGeneration /\ logs' = <<>>)]_vars

\* a log that holds one entry although more messages were handled: it was
\* emptied by the start of a generation and has grown again
C17_Witness ==
    /\ Len(logs) = 1
    /\ applied >= 3
    /\ isGenerating
    /\ tasks = <<>>
    /\ refetches = 0

\* ------------------------------------------------------------------------
\* Properties of frame delivery (checked under FrameSpec)
\* ------------------------------------------------------------------------

\* ws.onmessage of socket s runs in this step
Delivers(s) ==
    /\ sockets[s].readyState = "OPEN"
    /\ sockets'[s].readyState = "OPEN"
    /\ Len(sockets'[s].inbox) < Len(sockets[s].inbox)

PageUnchanged ==
    /\ tasks' = tasks
    /\ logs' = logs
    /\ isGenerating' = isGenerating
    /\ refetches' = refetches
    /\ applied' = applied

\* C18: the message merged in a delivery step is the oldest frame in flight
\* and it is merged in that same step; the younger frames stay queued in
\* their order.
C18_AppliedInArrivalOrder ==
    [][\A s \in SocketIds :
          (Delivers(s) /\ sockets[s].inbox[1].data = "json") =>
              /\ sockets'[s].inbox = Tail(sockets[s].inbox)
              /\ applied' = applied + 1
              /\ tasks' = MapTasks(sockets[s].inbox[1].msg, tasks)
              /\ logs' = MergedLogs(sockets[s].inbox[1].msg, logs)]_vars

\* two log frames delivered in the order l2, l1 on an open connection
C18_Witness ==
    /\ applied >= 2
    /\ logs = <<"l2", "l1">>
    /\ \E s \in SocketIds : sockets[s].readyState = "OPEN"

\* C19: a 'pong' frame is not forwarded to onMessage and changes neither
\* the tasks nor the log; a frame that parses is forwarded exactly once.
C19_PongSwallowedOthersForwardedOnce ==
    [][\A s \in SocketIds :
          Delivers(s) =>
              /\ sockets[s].inbox[1].data = "pong" => PageUnchanged
              /\ sockets[s].inbox[1].data = "json" =>
                    /\ applied' = applied + 1
                    /\ Len(sockets'[s].inbox) = Len(sockets[s].inbox) - 1]_vars

\* a message was forwarded and a 'pong' is the only frame still in flight
C19_Witness ==
    /\ applied = 1
    /\ \E s \in SocketIds :
          /\ sockets[s].readyState = "OPEN"
          /\ sockets[s].inbox = <<PongFrame>>

\* C20: a frame that fails to parse is dropped: onMessage is not called, the
\* page state, the refs, the timers and the counter stay as they are, and
\* the socket stays OPEN with the later frames still to be delivered.
C20_MalformedFrameDropped ==
    [][\A s \in SocketIds :
          (Delivers(s) /\ sockets[s].inbox[1].data = "malformed") =>
              /\ PageUnchanged
              /\ parseErrors' = parseErrors + 1
              /\ sockets' = [sockets EXCEPT
                                ![s].inbox = Tail(sockets[s].inbox)]
              /\ wsRef' = wsRef
              /\ timeouts' = timeouts
              /\ reconnectTimeoutRef' = reconnectTimeoutRef
              /\ reconnectAttempts' = reconnectAttempts]_vars

\* a frame was dropped, messages were forwarded, and a well-formed frame is
\* waiting on the same open connection
C20_Witness ==
    /\ parseErrors = 1
    /\ applied >= 1
    /\ \E s \in SocketIds :
          /\ sockets[s].readyState = "OPEN"
          /\ sockets[s].inbox # <<>>
          /\ sockets[s].inbox[1].data = "json"

\* ------------------------------------------------------------------------
\* Heartbeat, artifacts, notifications, counters and snapshots
\* ------------------------------------------------------------------------

\* the heartbeat callback of socket s calls ws.send('ping') in this step
PingSent(s) ==
    /\ sockets[s].readyState # "CLOSED"
    /\ sockets'[s].readyState # "CLOSED"
    /\ sockets'[s].unanswered > sockets[s].unanswered

\* C21: a 'ping' is sent on a socket only while it is OPEN, and no socket
\* that is CLOSED has its heartbeat interval still running (checked in
\* every step that changes a socket).
C21_HeartbeatOnlyWhileOpen ==
    [][sockets' # sockets =>
          /\ \A s \in SocketIds :
                PingSent(s) => sockets[s].readyState = "OPEN"
          /\ \A s \in 1..Len(sockets') :
                sockets'[s].readyState = "CLOSED" => ~sockets'[s].heartbeat]_vars

\* a closed socket next to an open one that has sent a probe
C21_Witness ==
    /\ \E s \in SocketIds : sockets[s].readyState = "CLOSED"
    /\ \E s \in SocketIds :
          sockets[s].readyState = "OPEN" /\ sockets[s].unanswered > 0

ArtifactMessages == {m \in Messages : m.type = "artifact_created"}

\* C22: handling an artifact_created message leaves the task list and the
\* log as they were.
C22_ArtifactCreatedKeepsTasksAndLogs ==
    [][\A m \in ArtifactMessages :
          HandleMessage(m) => tasks' = tasks /\ logs' = logs]_vars

\* messages were handled and a task and a log entry are there to keep
C22_Witness ==
    /\ applied >= 2
    /\ refetches = 0
    /\ logs = <<"l1">>
    /\ Len(tasks) = 2
    /\ tasks[1].status = "pending"
    /\ tasks[2].status = "failed"

\* C23: handling an artifact_created message calls refetchArtifacts().
C23_ArtifactCreatedRefetches ==
    [][\A m \in ArtifactMessages :
          HandleMessage(m) => refetches' = refetches + 1]_vars

StartedMessages == {m \in Messages : m.type = "task_started"}

\* C24: task_started for a task that has an entry leaves it running with
\* progress 0, whatever it held before, and leaves the other tasks as they
\* were.
C24_StartedSetsRunningProgress0 ==
    [][isGenerating' =>
          \A m \in StartedMessages :
              HandleMessage(m) =>
                  /\ Len(tasks') = Len(tasks)
                  /\ \A i \in TaskIdx :
                        IF tasks[i].id = m.task_id
                        THEN /\ tasks'[i].status = "running"
                             /\ tasks'[i].progress = 0
                        ELSE tasks'[i] = tasks[i]]_vars

\* a task that had failed at progress 40 is running again at progress 0
C24_Witness ==
    /\ isGenerating
    /\ \E i \in TaskIdx :
          /\ tasks[i].status = "running"
          /\ tasks[i].progress = 0
          /\ tasks[i].error_message = "boom"

\* C25: the step in which the hook's reconnect budget runs out (no socket,
\* no pending timer, counter at the ceiling) calls a callback of the
\* consumer; onMessage is the only callback the hook is given.
C25_FailedIsReported ==
    [][(~IsFailed /\ IsFailed') => applied' # applied]_vars

\* a reconnect of the subscribed key is due: its timer is pending
ReconnectDue(n, e) ==
    /\ phase = "mounted"
    /\ effectRuns = e
    /\ Len(sockets) = n
    /\ \E t \in TimerIds :
          timeouts[t].state = "pending" /\ timeouts[t].key = curKey

\* the socket created after the n-th is a connection attempt for the
\* subscribed key
AttemptMade(n) ==
    /\ Len(sockets) = n + 1
    /\ sockets[n + 1].readyState = "CONNECTING"
    /\ sockets[n + 1].key = curKey

\* C26: when a socket of the subscribed key has closed abnormally below the
\* ceiling and the effect neither re-runs nor is cleaned up, a new socket
\* for that key is eventually created (timers that can fire do fire).
C26_CloseLeadsToNewAttempt ==
    \A n \in 1..(MaxSockets - 1) : \A e \in 1..MaxEffectRuns :
        ReconnectDue(n, e) ~>
            (AttemptMade(n) \/ phase # "mounted" \/ effectRuns # e)

\* C27: reconnectAttempts.current is between 0 and maxReconnectAttempts.
C27_AttemptsWithinCeiling ==
    reconnectAttempts \in 0..maxReconnectAttempts

PendingTimers == {t \in TimerIds : timeouts[t].state = "pending"}

\* C28: at most one reconnect timer is pending, and reconnectTimeoutRef
\* holds the pending one.
C28_OnePendingTimerHeldByRef ==
    /\ Cardinality(PendingTimers) <= 1
    /\ \A t \in PendingTimers : reconnectTimeoutRef = t

TaskEventMessages == {m \in Messages : m.type \in TaskEventTypes}
TaskIdList(ts) == [i \in 1..Len(ts) |-> ts[i].id]

\* C29: handling a message leaves the list of task ids as it was, and a task
\* event whose task_id matches no task leaves every task as it was.
C29_EventsKeepTaskIds ==
    [][applied' = applied + 1 =>
          /\ TaskIdList(tasks') = TaskIdList(tasks)
          /\ tasks' # tasks =>
                \A m \in TaskEventMessages :
                    ~HasEntry(m.task_id) => ~HandleMessage(m)]_vars

\* task_completed was handled although the list holds no task at all
C29_Witness ==
    /\ refetches > 0
    /\ applied >= 1
    /\ tasks = <<>>

\* C30: a fetched snapshot becomes the task list as it is, whatever was
\* merged before, and isGenerating becomes TRUE exactly when the snapshot
\* holds a running task.
C30_SnapshotReplacesTasks ==
    [][applied' = applied =>
          \A snap \in Snapshots :
              FetchedTasks(snap) =>
                  /\ tasks' = snap
                  /\ isGenerating' =
                        (\E i \in 1..Len(snap) : snap[i].status = "running")]_vars

\* after task_completed was handled the list is a snapshot with a pending
\* task and nothing is generating
C30_Witness ==
    /\ refetches > 0
    /\ ~isGenerating
    /\ Len(tasks) = 1
    /\ tasks[1].status = "pending"
    /\ tasks[1].progress = 0

====
